---- MODULE Spec2Model ----
(***************************************************************************)
(* Model of backend/main.py: the /info and /download handlers of the      *)
(* YT Downloader backend, the temporary cookie file they create, the      *)
(* yt-dlp child process of /download and the generator that relays its    *)
(* standard output to the HTTP response.                                   *)
(***************************************************************************)
EXTENDS Integers, Sequences, FiniteSets, TLC

(* ------------------------------ bounds -------------------------------- *)

\* Most bytes a child writes to its standard output.
MaxOut == 3
\* Size of one read from the child: stands for the 4096 of read(4096).
ChunkSize == 2
\* Capacity of the pipe between the child's standard output and the relay,
\* no smaller than one read, as a pipe's 65536 bytes are.
PipeCap == 3
\* Capacity of the pipe behind the child's standard error.
ErrCap == 1
\* Longest formats list an extractor result carries.
MaxFormats == 2

\* The requests of one run; each is received once.
Reqs == {1, 2}
\* The names tempfile can give a file.
Paths == {"/tmp/tmpa.txt", "/tmp/tmpb.txt"}

(* ------------------------------ values -------------------------------- *)

\* Python's None.
None == "None"
\* A non-empty Netscape cookie blob.
CookieBlob == "# Netscape HTTP Cookie File"
\* The values request.cookies can take: absent, empty, non-empty.
CookieInputs == {None, "", CookieBlob}
\* The values of the format_id query parameter.
FormatIdInputs == {None, "22"}
Url == "https://video.example/abc"

\* The owner recorded for a path no file exists under.
NoFile == 0

\* dict.get(key, default)
Get(d, k, default) == IF k \in DOMAIN d THEN d[k] ELSE default

\* `is not None` in place of truthiness.
NotNone(s) == s # None

\* Python truthiness of an optional string.
Truthy(s) == s # None /\ s # ""

\* needle in hay, for texts given as sequences of characters.
IsSubstr(needle, hay) ==
    \E i \in 0..(Len(hay) - Len(needle)) :
        SubSeq(hay, i + 1, i + Len(needle)) = needle

(* --------------------------- extractor texts -------------------------- *)

\* The cue of line 91, character by character.
SignInCue == <<"S", "i", "g", "n", " ", "i", "n">>

MsgSignIn == <<"S", "i", "g", "n", " ", "i", "n", " ", "t", "o">>
MsgSignInLate == <<"E", ":", " ", "S", "i", "g", "n", " ", "i", "n">>
MsgLowerCase == <<"s", "i", "g", "n", " ", "i", "n">>
MsgUnavailable == <<"V", "i", "d", "e", "o", " ", "g", "o", "n", "e">>
\* The messages extract_info fails with.
ExtractorErrors == {MsgSignIn, MsgSignInLate, MsgLowerCase, MsgUnavailable}

\* str(KeyError(key))
KeyErrorText(key) == <<"'", key, "'">>

\* The fixed texts of lines 92 and 164, and the framework's text for an
\* exception no handler caught.
AuthDetail == <<"YouTube requires authentication. Please ensure cookies are sent.">>
DownloadFailedDetail == <<"Download failed">>
InternalErrorDetail == <<"Internal Server Error">>

(* ------------------------- extractor results -------------------------- *)

FmtCombined == [ext |-> "mp4", vcodec |-> "avc1", acodec |-> "mp4a",
                resolution |-> "1280x720", filesize |-> "1MB",
                format_note |-> "720p"]
FmtVideoOnly == [ext |-> "mp4", vcodec |-> "avc1", acodec |-> "none",
                 resolution |-> "1920x1080", filesize |-> "9MB",
                 format_note |-> "1080p"]
FmtAudioOnly == [ext |-> "m4a", vcodec |-> "none", acodec |-> "mp4a",
                 resolution |-> "audio only", format_note |-> "medium"]
\* An audio stream whose vcodec field is missing rather than 'none'.
FmtNoVcodecKey == [ext |-> "m4a", acodec |-> "mp4a"]
\* A video stream whose acodec field is missing rather than 'none'.
FmtNoAcodecKey == [ext |-> "mp4", vcodec |-> "avc1", resolution |-> "640x360"]
FormatShapes ==
    {FmtCombined, FmtVideoOnly, FmtAudioOnly, FmtNoVcodecKey, FmtNoAcodecKey}

\* A format of the extractor: a shape, with its position as format_id, or
\* (hasId = FALSE) without a format_id key.
FormatEntries == (FormatShapes \X {TRUE}) \cup {<<FmtCombined, FALSE>>}

WithId(shape, i) ==
    [k \in DOMAIN shape \cup {"format_id"} |->
        IF k = "format_id" THEN i ELSE shape[k]]

MkFormats(es) ==
    [i \in 1..Len(es) |-> IF es[i][2] THEN WithId(es[i][1], i) ELSE es[i][1]]

SeqsUpTo(S, n) == UNION {[1..k -> S] : k \in 0..n}

FormatLists == {MkFormats(es) : es \in SeqsUpTo(FormatEntries, MaxFormats)}

\* What extract_info returns: a dict with every key, or one without the
\* 'title' and 'formats' keys.
InfoDicts ==
    {[title |-> "A title", thumbnail |-> "thumb.jpg", duration |-> "212",
      formats |-> fl] : fl \in FormatLists}
    \cup {[thumbnail |-> "thumb.jpg", duration |-> "212"]}

\* What extract_info does: raises an error, or returns a dict.
ExtractorResults ==
    {[ok |-> FALSE, error |-> m] : m \in ExtractorErrors}
    \cup {[ok |-> TRUE, info |-> d] : d \in InfoDicts}

\* The value of a request that has not called the extractor.
NotExtracted == [ok |-> FALSE, error |-> <<>>]

(* ------------------------------- state -------------------------------- *)

VARIABLES
    unlinkMayFail,  \* whether os.unlink can raise in this run
    fs,             \* path -> the request whose file exists there, or NoFile
    pc,             \* request -> "idle", "extracting", "streaming", "done"
    kind,           \* request -> None, "info", "download"
    cookies,        \* request -> request.cookies
    cookie_file,    \* request -> the path create_cookie_file returned, or None
    created,        \* request -> the paths its create_cookie_file call created
    ydl_opts,       \* request -> the options handed to YoutubeDL
    extracted,      \* request -> what extract_info did
    response,       \* request -> the HTTP response
    cmd,            \* request -> the child's command line
    child,          \* request -> the child process's state
    childOutOpen,   \* request -> the child holds its standard output open
    childOut,       \* request -> the bytes the child wrote to standard output
    pipe,           \* request -> the bytes in the pipe, oldest first
    errPipe,        \* request -> the number of bytes in the stderr pipe
    stdoutOpen,     \* request -> proc.stdout is open
    gen,            \* request -> the state of the iterfile() generator
    data,           \* request -> the chunk yielded and not yet sent
    sent,           \* request -> the chunks sent to the client
    how,            \* request -> the way the request ended
    log             \* request -> the steps the relay took on the child and file

vars == <<unlinkMayFail, fs, pc, kind, cookies, cookie_file, created, ydl_opts,
          extracted, response, cmd, child, childOutOpen, childOut, pipe,
          errPipe, stdoutOpen, gen, data, sent, how, log>>

infoVars == <<ydl_opts, extracted>>
procVars == <<cmd, child, childOutOpen, childOut, pipe, errPipe, stdoutOpen>>
genVars == <<gen, data, sent>>

NoResponse == [status |-> 0]

InitRequests ==
    /\ fs = [p \in Paths |-> NoFile]
    /\ pc = [r \in Reqs |-> "idle"]
    /\ kind = [r \in Reqs |-> None]
    /\ cookies = [r \in Reqs |-> None]
    /\ cookie_file = [r \in Reqs |-> None]
    /\ created = [r \in Reqs |-> {}]
    /\ ydl_opts = [r \in Reqs |-> <<>>]
    /\ extracted = [r \in Reqs |-> NotExtracted]
    /\ response = [r \in Reqs |-> NoResponse]
    /\ cmd = [r \in Reqs |-> <<>>]
    /\ child = [r \in Reqs |-> "none"]
    /\ childOutOpen = [r \in Reqs |-> FALSE]
    /\ childOut = [r \in Reqs |-> <<>>]
    /\ pipe = [r \in Reqs |-> <<>>]
    /\ errPipe = [r \in Reqs |-> 0]
    /\ stdoutOpen = [r \in Reqs |-> FALSE]
    /\ gen = [r \in Reqs |-> "none"]
    /\ data = [r \in Reqs |-> <<>>]
    /\ sent = [r \in Reqs |-> <<>>]
    /\ how = [r \in Reqs |-> "none"]
    /\ log = [r \in Reqs |-> <<>>]

\* A run in which every os.unlink succeeds.
Init == unlinkMayFail = FALSE /\ InitRequests

\* A run in which os.unlink can raise.
InitUnlinkFaults == unlinkMayFail = TRUE /\ InitRequests

(* --------------------------- the cookie file --------------------------- *)

\* os.path.exists
Exists(path) == fs[path] # NoFile

\* A create_cookie_file that writes to one fixed name.
CreateCookieFileFixedName(content, r) ==
    IF ~Truthy(content)
    THEN {[path |-> None, fs |-> fs]}
    ELSE {[path |-> "/tmp/tmpa.txt", fs |-> [fs EXCEPT !["/tmp/tmpa.txt"] = r]]}

\* What create_cookie_file(content) can do for request r: the path it
\* returns and the filesystem it leaves.
CreateCookieFile(content, r) ==
    IF ~Truthy(content)
    THEN {[path |-> None, fs |-> fs]}
    ELSE \* NamedTemporaryFile raised: no file, None
         {[path |-> None, fs |-> fs]}
         \* the file was created and written: its name
         \cup {[path |-> p, fs |-> [fs EXCEPT ![p] = r]] :
                  p \in {q \in Paths : ~Exists(q)}}
         \* the file was created, write or close raised: None
         \cup {[path |-> None, fs |-> [fs EXCEPT ![p] = r]] :
                  p \in {q \in Paths : ~Exists(q)}}

\* The outcomes of os.unlink.
UnlinkResults == IF unlinkMayFail THEN {"ok", "OSError"} ELSE {"ok"}

\* The test without os.path.exists.
ShouldUnlinkAnyPath(path, fsys) == Truthy(path)

\* `if cookie_file and os.path.exists(cookie_file)` for a filesystem fsys.
ShouldUnlink(path, fsys) == Truthy(path) /\ fsys[path] # NoFile

\* The filesystem after os.unlink(path) ended with res on fsys.
AfterUnlink(fsys, path, res) ==
    IF res = "ok" THEN [fsys EXCEPT ![path] = NoFile] ELSE fsys

\* os.unlink(path) on fsys: it raises FileNotFoundError when no file is
\* there, and removes the file otherwise.
OsUnlink(fsys, path) ==
    IF fsys[path] = NoFile
    THEN [fs |-> fsys, raised |-> TRUE]
    ELSE [fs |-> AfterUnlink(fsys, path, "ok"), raised |-> FALSE]

\* Lines 96-97 (and 147-150, 162-163): the deletion step on fsys.
DeletionStep(fsys, path) ==
    IF ShouldUnlink(path, fsys)
    THEN OsUnlink(fsys, path)
    ELSE [fs |-> fsys, raised |-> FALSE]

(* -------------------------------- /info -------------------------------- *)

\* Options that get the cookiefile key whatever create_cookie_file returned.
InfoOptionsAlways(path) ==
    [quiet |-> TRUE, no_warnings |-> TRUE, cookiefile |-> path]

\* Lines 62-67.
InfoOptions(path) ==
    IF Truthy(path)
    THEN [quiet |-> TRUE, no_warnings |-> TRUE, cookiefile |-> path]
    ELSE [quiet |-> TRUE, no_warnings |-> TRUE]

\* The condition of line 74.
IsCombined(f) ==
    Get(f, "vcodec", None) # "none" /\ Get(f, "acodec", None) # "none"

\* Lines 75-81.
Descriptor(f) ==
    [format_id |-> f["format_id"],
     ext |-> f["ext"],
     resolution |-> Get(f, "resolution", "unknown"),
     filesize |-> Get(f, "filesize", None),
     note |-> Get(f, "format_note", None)]

\* The loop of lines 72-81 from position i on, acc being the list so far:
\* the list, or the KeyError of the first selected format without a key.
RECURSIVE CollectFormats(_, _, _)
CollectFormats(formats, i, acc) ==
    IF i > Len(formats) THEN [ok |-> TRUE, formats |-> acc]
    ELSE IF ~IsCombined(formats[i]) THEN CollectFormats(formats, i + 1, acc)
    ELSE IF "format_id" \notin DOMAIN formats[i]
         THEN [ok |-> FALSE, error |-> KeyErrorText("format_id")]
    ELSE IF "ext" \notin DOMAIN formats[i]
         THEN [ok |-> FALSE, error |-> KeyErrorText("ext")]
    ELSE CollectFormats(formats, i + 1, Append(acc, Descriptor(formats[i])))

\* The response without the test of line 91.
ErrorResponseRaw(msg) == [status |-> 400, detail |-> msg]

\* Lines 88-93: the response for an exception whose text is msg.
ErrorResponse(msg) ==
    IF IsSubstr(SignInCue, msg)
    THEN [status |-> 400, detail |-> AuthDetail]
    ELSE [status |-> 400, detail |-> msg]

\* Lines 83-87.
InfoResponse(info, formats) ==
    [status |-> 200,
     title |-> Get(info, "title", None),
     thumbnail |-> Get(info, "thumbnail", None),
     formats |-> formats]

\* Lines 69-93: the response of the try statement for an extractor result.
InfoBody(res) ==
    IF ~res.ok THEN ErrorResponse(res.error)
    ELSE LET c == CollectFormats(Get(res.info, "formats", <<>>), 1, <<>>)
         IN  IF c.ok THEN InfoResponse(res.info, c.formats)
             ELSE ErrorResponse(c.error)

\* Lines 58-70: /info is received, the cookie file is created, and the
\* extractor is called with the options.
InfoBeginWith(r, cookieInputs) ==
    /\ pc[r] = "idle"
    /\ \E c \in cookieInputs : \E o \in CreateCookieFile(c, r) :
        /\ cookies' = [cookies EXCEPT ![r] = c]
        /\ cookie_file' = [cookie_file EXCEPT ![r] = o.path]
        /\ fs' = o.fs
        /\ created' = [created EXCEPT ![r] = {p \in Paths : o.fs[p] # fs[p]}]
        /\ ydl_opts' = [ydl_opts EXCEPT ![r] = InfoOptions(o.path)]
    /\ kind' = [kind EXCEPT ![r] = "info"]
    /\ pc' = [pc EXCEPT ![r] = "extracting"]
    /\ UNCHANGED <<unlinkMayFail, extracted, response, procVars, genVars, how, log>>

InfoBegin(r) == InfoBeginWith(r, CookieInputs)

\* The cleanup of lines 96-97 placed at the end of the try block, where
\* an exception skips it.
InfoFinallyOnSuccess(r, resp) ==
    IF resp.status = 200 /\ ShouldUnlink(cookie_file[r], fs)
    THEN /\ fs' = AfterUnlink(fs, cookie_file[r], "ok")
         /\ log' = [log EXCEPT ![r] = Append(@, "unlink")]
         /\ response' = [response EXCEPT ![r] = resp]
    ELSE /\ response' = [response EXCEPT ![r] = resp]
         /\ UNCHANGED <<fs, log>>

\* Lines 94-97: the finally clause of get_video_info, entered with the
\* response resp of the try statement. An exception of os.unlink replaces
\* that response.
InfoFinally(r, resp) ==
    IF ShouldUnlink(cookie_file[r], fs)
    THEN \E u \in UnlinkResults :
            /\ fs' = AfterUnlink(fs, cookie_file[r], u)
            /\ log' = [log EXCEPT ![r] = Append(@, "unlink")]
            /\ response' = [response EXCEPT ![r] =
                    IF u = "ok" THEN resp
                    ELSE [status |-> 500, detail |-> InternalErrorDetail]]
    ELSE /\ response' = [response EXCEPT ![r] = resp]
         /\ UNCHANGED <<fs, log>>

\* Lines 70-97: the extractor returns or raises (one of results), the
\* handler builds its response and the finally clause runs.
InfoEnd(r, results) ==
    /\ pc[r] = "extracting"
    /\ \E res \in results :
        /\ extracted' = [extracted EXCEPT ![r] = res]
        /\ InfoFinally(r, InfoBody(res))
    /\ how' = [how EXCEPT ![r] = "returned"]
    /\ pc' = [pc EXCEPT ![r] = "done"]
    /\ UNCHANGED <<unlinkMayFail, kind, cookies, cookie_file, created, ydl_opts,
                   procVars, genVars>>

(* ------------------------------ /download ------------------------------ *)

\* Lines 109-119.
BuildCmd(format_id, path) ==
    <<"yt-dlp", "-f", IF Truthy(format_id) THEN format_id ELSE "best",
      "-o", "-", Url>>
    \o (IF Truthy(path) THEN <<"--cookies", path>> ELSE <<>>)

\* Lines 154-158.
StreamingResponse ==
    [status |-> 200, media_type |-> "video/mp4",
     disposition |-> "attachment; filename=\"video.mp4\""]

\* Lines 104-158: /download is received, the cookie file is created, the
\* child is spawned and the response is returned with the generator not
\* yet started.
DownloadSpawnedWith(r, cookieInputs, formatInputs) ==
    /\ pc[r] = "idle"
    /\ \E c \in cookieInputs, f \in formatInputs :
       \E o \in CreateCookieFile(c, r) :
        /\ cookies' = [cookies EXCEPT ![r] = c]
        /\ cookie_file' = [cookie_file EXCEPT ![r] = o.path]
        /\ fs' = o.fs
        /\ created' = [created EXCEPT ![r] = {p \in Paths : o.fs[p] # fs[p]}]
        /\ cmd' = [cmd EXCEPT ![r] = BuildCmd(f, o.path)]
    /\ kind' = [kind EXCEPT ![r] = "download"]
    /\ child' = [child EXCEPT ![r] = "running"]
    /\ childOutOpen' = [childOutOpen EXCEPT ![r] = TRUE]
    /\ stdoutOpen' = [stdoutOpen EXCEPT ![r] = TRUE]
    /\ gen' = [gen EXCEPT ![r] = "unstarted"]
    /\ response' = [response EXCEPT ![r] = StreamingResponse]
    /\ pc' = [pc EXCEPT ![r] = "streaming"]
    /\ UNCHANGED <<unlinkMayFail, infoVars, childOut, pipe, errPipe, data, sent,
                   how, log>>

DownloadSpawned(r) == DownloadSpawnedWith(r, CookieInputs, FormatIdInputs)

\* The texts of the exceptions Popen raises.
PopenErrors ==
    {"[Errno 2] No such file or directory: 'yt-dlp'",
     "[Errno 12] Cannot allocate memory"}

\* A handler that answers with the text of the exception.
SpawnFailedResponseLeaky(e) == [status |-> 500, detail |-> <<e>>]

\* Line 164: the response for Popen's exception e.
SpawnFailedResponse(e) == [status |-> 500, detail |-> DownloadFailedDetail]

\* Lines 104-133 and 160-164: Popen raises; the handler deletes the cookie
\* file and raises the 500. An exception of os.unlink leaves the handler in
\* its place.
DownloadSpawnFailedWith(r, cookieInputs, formatInputs) ==
    /\ pc[r] = "idle"
    /\ \E c \in cookieInputs, f \in formatInputs, e \in PopenErrors :
       \E o \in CreateCookieFile(c, r) :
        /\ cookies' = [cookies EXCEPT ![r] = c]
        /\ cookie_file' = [cookie_file EXCEPT ![r] = o.path]
        /\ created' = [created EXCEPT ![r] = {p \in Paths : o.fs[p] # fs[p]}]
        /\ cmd' = [cmd EXCEPT ![r] = BuildCmd(f, o.path)]
        /\ IF ShouldUnlink(o.path, o.fs)
           THEN \E u \in UnlinkResults :
                /\ fs' = AfterUnlink(o.fs, o.path, u)
                /\ log' = [log EXCEPT ![r] = Append(@, "unlink")]
                /\ response' = [response EXCEPT ![r] =
                        IF u = "ok"
                        THEN SpawnFailedResponse(e)
                        ELSE [status |-> 500, detail |-> InternalErrorDetail]]
           ELSE /\ fs' = o.fs
                /\ response' = [response EXCEPT ![r] = SpawnFailedResponse(e)]
                /\ UNCHANGED log
    /\ kind' = [kind EXCEPT ![r] = "download"]
    /\ how' = [how EXCEPT ![r] = "spawn_failed"]
    /\ pc' = [pc EXCEPT ![r] = "done"]
    /\ UNCHANGED <<unlinkMayFail, infoVars, child, childOutOpen, childOut, pipe,
                   errPipe, stdoutOpen, genVars>>

DownloadSpawnFailed(r) == DownloadSpawnFailedWith(r, CookieInputs, FormatIdInputs)

(* ------------------------------ the child ------------------------------ *)

\* The child writes the next byte of an output of at most n bytes; the byte
\* is its position.
ChildWriteOutUpTo(r, n) ==
    /\ child[r] = "running"
    /\ childOutOpen[r]
    /\ Len(pipe[r]) < PipeCap
    /\ Len(childOut[r]) < n
    /\ childOut' = [childOut EXCEPT ![r] = Append(@, Len(@) + 1)]
    /\ pipe' = [pipe EXCEPT ![r] = Append(@, Len(childOut[r]) + 1)]
    /\ UNCHANGED <<unlinkMayFail, fs, pc, kind, cookies, cookie_file, created,
                   infoVars, response, cmd, child, childOutOpen, errPipe,
                   stdoutOpen, genVars, how, log>>

ChildWriteOut(r) == ChildWriteOutUpTo(r, MaxOut)

\* The child writes a byte to its standard error, which nothing reads:
\* when the pipe is full the write blocks.
ChildWriteErr(r) ==
    /\ child[r] = "running"
    /\ IF errPipe[r] < ErrCap
       THEN /\ errPipe' = [errPipe EXCEPT ![r] = @ + 1]
            /\ UNCHANGED child
       ELSE /\ child' = [child EXCEPT ![r] = "stderr_blocked"]
            /\ UNCHANGED errPipe
    /\ UNCHANGED <<unlinkMayFail, fs, pc, kind, cookies, cookie_file, created,
                   infoVars, response, cmd, childOutOpen, childOut, pipe,
                   stdoutOpen, genVars, how, log>>

\* The child closes its standard output and goes on running.
ChildCloseOut(r) ==
    /\ child[r] = "running"
    /\ childOutOpen[r]
    /\ childOutOpen' = [childOutOpen EXCEPT ![r] = FALSE]
    /\ UNCHANGED <<unlinkMayFail, fs, pc, kind, cookies, cookie_file, created,
                   infoVars, response, cmd, child, childOut, pipe, errPipe,
                   stdoutOpen, genVars, how, log>>

\* The child exits with status 0 or 1.
ChildExit(r) ==
    /\ child[r] = "running"
    /\ \E st \in {"exit0", "exit1"} : child' = [child EXCEPT ![r] = st]
    /\ childOutOpen' = [childOutOpen EXCEPT ![r] = FALSE]
    /\ UNCHANGED <<unlinkMayFail, fs, pc, kind, cookies, cookie_file, created,
                   infoVars, response, cmd, childOut, pipe, errPipe,
                   stdoutOpen, genVars, how, log>>

\* A child that has not ended.
Alive(st) == st \in {"running", "stderr_blocked"}

\* A handler that does not call proc.kill().
KillOmitted(st) == st

\* proc.kill(): SIGKILL to a child that has not ended.
Kill(st) == IF Alive(st) THEN "killed" ELSE st

(* ------------------------------ iterfile ------------------------------- *)

\* A read() without a size: everything the pipe holds.
ReadLenUnbounded(p, n) == Len(p)

\* The number of bytes read(n) takes from pipe contents p.
ReadLen(p, n) == IF Len(p) < n THEN Len(p) ELSE n

\* A read that loses the last byte it took from the pipe.
ReadBytesShort(p, n) == SubSeq(p, 1, ReadLen(p, n) - 1)

\* The bytes proc.stdout.read(n) returns from pipe contents p: a read gets
\* n bytes, or what is left when the child closed its end.
ReadBytes(p, n) == SubSeq(p, 1, ReadLen(p, n))

\* What read(n) leaves in the pipe.
RestAfterRead(p, n) == SubSeq(p, ReadLen(p, n) + 1, Len(p))

\* Whether read(n) can return: n bytes are there, or end of file.
ReadReady(r, n) == Len(pipe[r]) >= n \/ ~childOutOpen[r]

\* Lines 146-152: the finally clause of iterfile, after steps `before`.
IterfileFinally(r, before) ==
    IF ShouldUnlink(cookie_file[r], fs)
    THEN \E u \in UnlinkResults :
            /\ fs' = AfterUnlink(fs, cookie_file[r], u)
            /\ log' = [log EXCEPT ![r] = @ \o before \o <<"unlink">>]
    ELSE /\ fs' = fs
         /\ log' = [log EXCEPT ![r] = @ \o before]

\* The framework asks the generator for its first chunk: iterfile runs to
\* the read of line 138.
GenStart(r) ==
    /\ pc[r] = "streaming"
    /\ gen[r] = "unstarted"
    /\ gen' = [gen EXCEPT ![r] = "reading"]
    /\ UNCHANGED <<unlinkMayFail, fs, pc, kind, cookies, cookie_file, created,
                   infoVars, response, procVars, data, sent, how, log>>

\* Lines 138-141: the read returns a chunk, which iterfile yields.
ReadChunk(r) ==
    /\ pc[r] = "streaming"
    /\ gen[r] = "reading"
    /\ ReadReady(r, ChunkSize)
    /\ ReadBytes(pipe[r], ChunkSize) # <<>>
    /\ data' = [data EXCEPT ![r] = ReadBytes(pipe[r], ChunkSize)]
    /\ pipe' = [pipe EXCEPT ![r] = RestAfterRead(@, ChunkSize)]
    /\ gen' = [gen EXCEPT ![r] = "suspended"]
    /\ UNCHANGED <<unlinkMayFail, fs, pc, kind, cookies, cookie_file, created,
                   infoVars, response, cmd, child, childOutOpen, childOut,
                   errPipe, stdoutOpen, sent, how, log>>

\* The framework sends the yielded chunk to the client and asks for the
\* next one.
SendChunk(r) ==
    /\ pc[r] = "streaming"
    /\ gen[r] = "suspended"
    /\ sent' = [sent EXCEPT ![r] = Append(@, data[r])]
    /\ data' = [data EXCEPT ![r] = <<>>]
    /\ gen' = [gen EXCEPT ![r] = "reading"]
    /\ UNCHANGED <<unlinkMayFail, fs, pc, kind, cookies, cookie_file, created,
                   infoVars, response, procVars, how, log>>

\* Lines 138-142 and 146-152: the read returns no byte; iterfile leaves the
\* loop, closes proc.stdout, runs its finally clause and ends.
ReadEOF(r) ==
    /\ pc[r] = "streaming"
    /\ gen[r] = "reading"
    /\ ReadReady(r, ChunkSize)
    /\ ReadBytes(pipe[r], ChunkSize) = <<>>
    /\ stdoutOpen' = [stdoutOpen EXCEPT ![r] = FALSE]
    /\ IterfileFinally(r, <<"eof", "close">>)
    /\ gen' = [gen EXCEPT ![r] = "finished"]
    /\ how' = [how EXCEPT ![r] = "eof"]
    /\ pc' = [pc EXCEPT ![r] = "done"]
    /\ UNCHANGED <<unlinkMayFail, kind, cookies, cookie_file, created, infoVars,
                   response, cmd, child, childOutOpen, childOut, pipe, errPipe,
                   data, sent>>

\* Lines 143-152: the read raises an Exception; iterfile kills the child,
\* runs its finally clause and ends without raising.
ReadError(r) ==
    /\ pc[r] = "streaming"
    /\ gen[r] = "reading"
    /\ child' = [child EXCEPT ![r] = Kill(@)]
    /\ childOutOpen' = [childOutOpen EXCEPT ![r] = FALSE]
    /\ IterfileFinally(r, <<"exception", "kill">>)
    /\ gen' = [gen EXCEPT ![r] = "finished"]
    /\ how' = [how EXCEPT ![r] = "error"]
    /\ pc' = [pc EXCEPT ![r] = "done"]
    /\ UNCHANGED <<unlinkMayFail, kind, cookies, cookie_file, created, infoVars,
                   response, cmd, childOut, pipe, errPipe, stdoutOpen, data,
                   sent>>

\* The client disconnects and the framework drops the generator (a read in
\* progress first returns, which leaves the generator at its yield). Closing
\* a generator suspended at the yield raises GeneratorExit there, which
\* `except Exception` does not catch: only the finally clause runs. Closing
\* a generator that never started runs none of its code.
Disconnect(r) ==
    /\ pc[r] = "streaming"
    /\ gen[r] \in {"unstarted", "suspended"}
    /\ IF gen[r] = "suspended"
       THEN IterfileFinally(r, <<"GeneratorExit">>)
       ELSE UNCHANGED <<fs, log>>
    /\ gen' = [gen EXCEPT ![r] = "closed"]
    /\ how' = [how EXCEPT ![r] = "disconnect"]
    /\ pc' = [pc EXCEPT ![r] = "done"]
    /\ UNCHANGED <<unlinkMayFail, kind, cookies, cookie_file, created, infoVars,
                   response, procVars, data, sent>>

(* ---------------------------- specifications --------------------------- *)

\* The steps of request r and of its child.
Handle(r) ==
    \/ InfoBegin(r)
    \/ InfoEnd(r, ExtractorResults)
    \/ DownloadSpawned(r)
    \/ DownloadSpawnFailed(r)
    \/ ChildWriteOut(r)
    \/ ChildWriteErr(r)
    \/ ChildCloseOut(r)
    \/ ChildExit(r)
    \/ GenStart(r)
    \/ ReadChunk(r)
    \/ SendChunk(r)
    \/ ReadEOF(r)
    \/ ReadError(r)
    \/ Disconnect(r)

\* One request, served alone.
Next == Handle(1)

Spec == Init /\ [][Next]_vars

\* One request, served alone, where os.unlink can raise.
SpecUnlinkFaults == InitUnlinkFaults /\ [][Next]_vars

\* The inputs of the concurrent requests: each carries cookies.
ConcCookieInputs == {CookieBlob}
ConcFormatIdInputs == {None}
ConcExtractorResults ==
    {[ok |-> FALSE, error |-> MsgUnavailable],
     [ok |-> TRUE, info |-> [thumbnail |-> "thumb.jpg", duration |-> "212"]]}
\* Most bytes a child of a concurrent request writes.
ConcMaxOut == 1

\* The steps of request r and of its child, among concurrent requests.
HandleConcurrent(r) ==
    \/ InfoBeginWith(r, ConcCookieInputs)
    \/ InfoEnd(r, ConcExtractorResults)
    \/ DownloadSpawnedWith(r, ConcCookieInputs, ConcFormatIdInputs)
    \/ DownloadSpawnFailedWith(r, ConcCookieInputs, ConcFormatIdInputs)
    \/ ChildWriteOutUpTo(r, ConcMaxOut)
    \/ ChildWriteErr(r)
    \/ ChildCloseOut(r)
    \/ ChildExit(r)
    \/ GenStart(r)
    \/ ReadChunk(r)
    \/ SendChunk(r)
    \/ ReadEOF(r)
    \/ ReadError(r)
    \/ Disconnect(r)

\* The requests of Reqs, served concurrently.
NextConcurrent == \E r \in Reqs : HandleConcurrent(r)

SpecConcurrent == Init /\ [][NextConcurrent]_vars

(* ------------------------------- claims -------------------------------- *)

\* The file request r's create_cookie_file returned still exists.
ArtifactExists(r) == Truthy(cookie_file[r]) /\ fs[cookie_file[r]] = r

\* The concatenation of a sequence of chunks.
RECURSIVE Flatten(_)
Flatten(chunks) ==
    IF chunks = <<>> THEN <<>> ELSE Head(chunks) \o Flatten(Tail(chunks))

\* The relay of request r took the step.
InLog(r, step) == \E i \in DOMAIN log[r] : log[r][i] = step

IsPrefix(a, b) == Len(a) <= Len(b) /\ SubSeq(b, 1, Len(a)) = a

\* C1: every /download that created a credential artifact has, once it is
\* terminal, no artifact file left, whichever way it ended.
C1_ArtifactGoneWhenTerminal ==
    \A r \in Reqs :
        (kind[r] = "download" /\ pc[r] = "done" /\ Truthy(cookie_file[r]))
            => ~ArtifactExists(r)

\* C2: once a client disconnect in mid-stream (the generator was closed at
\* its yield) has been handled, the child is not running.
C2_ChildStoppedAfterDisconnect ==
    \A r \in Reqs :
        (how[r] = "disconnect" /\ InLog(r, "GeneratorExit"))
            => ~Alive(child[r])

\* C3: when the read of a chunk raised, the child has been killed, the
\* credential artifact is deleted, and the generator ended without raising.
C3_ReadErrorHandled ==
    \A r \in Reqs :
        how[r] = "error" =>
            /\ ~Alive(child[r])
            /\ ~ArtifactExists(r)
            /\ gen[r] = "finished"
            /\ response[r].status = 200

\* A read raised in mid-stream of a /download with cookies, whose child was
\* running.
C3_Witness ==
    \E r \in Reqs :
        /\ how[r] = "error"
        /\ Truthy(cookie_file[r])
        /\ child[r] = "killed"
        /\ sent[r] # <<>>

\* C4: on normal completion the relay observes EOF, closes its read handle,
\* waits for the child, and then deletes the artifact if one was used, in
\* this order.
C4_CompletionOrder ==
    \A r \in Reqs :
        how[r] = "eof" =>
            log[r] = <<"eof", "close", "wait">>
                     \o (IF Truthy(cookie_file[r]) THEN <<"unlink">> ELSE <<>>)

\* C5: an /info request whose cookie file was materialized created exactly
\* that one file, before the extractor is called; the extractor gets its
\* path as cookiefile; the file is absent once get_video_info has returned
\* or raised.
C5_InfoArtifactLifetime ==
    \A r \in Reqs :
        (kind[r] = "info" /\ Truthy(cookie_file[r])) =>
            /\ Truthy(cookies[r])
            /\ created[r] = {cookie_file[r]}
            /\ Cardinality(created[r]) = 1
            /\ "cookiefile" \in DOMAIN ydl_opts[r]
            /\ ydl_opts[r]["cookiefile"] = cookie_file[r]
            /\ (pc[r] = "extracting" => ArtifactExists(r))
            /\ (pc[r] = "done" => ~ArtifactExists(r))

\* An /info request with cookies whose extraction raised has returned.
C5_Witness ==
    \E r \in Reqs :
        /\ kind[r] = "info"
        /\ pc[r] = "done"
        /\ Truthy(cookie_file[r])
        /\ ~extracted[r].ok
        /\ response[r].status = 400

\* C6: a request whose cookies are None or the empty string creates no
\* temporary file, and neither the extractor options nor the child's
\* command line name a cookie file.
C6_NoCookiesNoArtifact ==
    \A r \in Reqs :
        (pc[r] # "idle" /\ cookies[r] \in {None, ""}) =>
            /\ created[r] = {}
            /\ cookie_file[r] = None
            /\ \A p \in Paths : fs[p] # r
            /\ "cookiefile" \notin DOMAIN ydl_opts[r]
            /\ \A i \in DOMAIN cmd[r] :
                   cmd[r][i] # "--cookies" /\ cmd[r][i] \notin Paths

\* A /download with the empty string as cookies is streaming.
C6_Witness ==
    \E r \in Reqs :
        /\ kind[r] = "download"
        /\ cookies[r] = ""
        /\ pc[r] = "streaming"
        /\ Len(cmd[r]) = 6

\* C7: the bytes sent to the client are always a prefix of the bytes the
\* child wrote, and are all of them when the stream ended at the child's
\* end of file.
C7_RelayedBytes ==
    \A r \in Reqs :
        /\ IsPrefix(Flatten(sent[r]), childOut[r])
        /\ how[r] = "eof" => Flatten(sent[r]) = childOut[r]

\* A stream of MaxOut bytes in more than one chunk ended at end of file.
C7_Witness ==
    \E r \in Reqs :
        /\ how[r] = "eof"
        /\ Len(sent[r]) > 1
        /\ Len(childOut[r]) = MaxOut

\* A format with a video codec and an audio codec present.
HasBothCodecs(f) ==
    /\ "vcodec" \in DOMAIN f /\ f["vcodec"] # "none"
    /\ "acodec" \in DOMAIN f /\ f["acodec"] # "none"

\* The format_ids of a list of formats or of descriptors, in order.
Ids(formats) == [i \in 1..Len(formats) |-> formats[i]["format_id"]]

\* C8: the formats /info returns are exactly, in order, the extractor's
\* formats with both a video and an audio codec present; a format whose
\* vcodec or acodec field is missing never appears.
C8_OnlyCombinedFormats ==
    \A r \in Reqs :
        (kind[r] = "info" /\ pc[r] = "done" /\ response[r].status = 200) =>
            Ids(response[r].formats) =
                Ids(SelectSeq(Get(extracted[r].info, "formats", <<>>),
                              HasBothCodecs))

\* The text contains the cue "Sign in".
ContainsCue(msg) ==
    \E i \in 1..Len(msg) : \E j \in i..Len(msg) : SubSeq(msg, i, j) = SignInCue

\* C9: every extractor failure in /info yields 400, with the fixed
\* authentication text, and not the extractor's, when the failure text
\* contains "Sign in", and with the failure text otherwise.
C9_ExtractorFailureIs400 ==
    \A r \in Reqs :
        (kind[r] = "info" /\ pc[r] = "done" /\ ~extracted[r].ok) =>
            /\ response[r].status = 400
            /\ ContainsCue(extracted[r].error) =>
                   /\ response[r].detail = AuthDetail
                   /\ response[r].detail # extracted[r].error
            /\ ~ContainsCue(extracted[r].error) =>
                   response[r].detail = extracted[r].error

\* An extractor failure whose text ends with the cue was answered.
C9_Witness ==
    \E r \in Reqs :
        /\ kind[r] = "info"
        /\ pc[r] = "done"
        /\ extracted[r] = [ok |-> FALSE, error |-> MsgSignInLate]
        /\ response[r] = [status |-> 400, detail |-> AuthDetail]

\* C10: a child that exits with a non-zero status having written nothing
\* makes /download answer with an HTTP error, not with a successful
\* response with an empty body.
C10_EarlyChildFailureIsError ==
    \A r \in Reqs :
        (kind[r] = "download" /\ how[r] = "eof" /\ child[r] = "exit1"
            /\ childOut[r] = <<>> /\ sent[r] = <<>>)
            => response[r].status >= 400

\* C11: when the child cannot be started, /download ends with 500 and the
\* fixed detail "Download failed", never Popen's text; no child, no
\* generator and no stream exist; the credential artifact, if one was
\* created, is deleted.
C11_SpawnFailureIs500 ==
    \A r \in Reqs :
        how[r] = "spawn_failed" =>
            /\ pc[r] = "done"
            /\ response[r] = [status |-> 500, detail |-> DownloadFailedDetail]
            /\ \A e \in PopenErrors : ~IsSubstr(<<e>>, response[r].detail)
            /\ child[r] = "none" /\ gen[r] = "none" /\ sent[r] = <<>>
            /\ ~ArtifactExists(r)

\* A /download with a materialized cookie file whose child could not be
\* started has ended, after the handler's delete.
C11_Witness ==
    \E r \in Reqs :
        /\ how[r] = "spawn_failed"
        /\ Truthy(cookie_file[r])
        /\ created[r] = {cookie_file[r]}
        /\ InLog(r, "unlink")

\* C12: an error raised by the delete of the credential artifact is
\* swallowed, in /info, in the spawn-failure handler and at the end of the
\* stream: the request ends as it would have with a delete that succeeded.
C12_DeleteFailureSwallowed ==
    \A r \in Reqs :
        pc[r] = "done" =>
            /\ kind[r] = "info" => response[r] = InfoBody(extracted[r])
            /\ how[r] = "spawn_failed" =>
                   response[r] = [status |-> 500, detail |-> DownloadFailedDetail]
            /\ how[r] \in {"eof", "error", "disconnect"} =>
                   /\ response[r] = StreamingResponse
                   /\ gen[r] \in {"finished", "closed"}

\* The request had cookies and create_cookie_file failed to write them.
MaterializationFailed(r) ==
    pc[r] # "idle" /\ cookies[r] \notin {None, ""} /\ cookie_file[r] = None

\* C13: when the write of the credential artifact fails, create_cookie_file
\* reports no artifact and the request goes on without credentials: the
\* extractor or the child is invoked, with no cookie-file reference, and
\* the request is not aborted.
C13_WriteFailureDegrades ==
    \A r \in Reqs :
        MaterializationFailed(r) =>
            /\ "cookiefile" \notin DOMAIN ydl_opts[r]
            /\ \A i \in DOMAIN cmd[r] :
                   cmd[r][i] # "--cookies" /\ cmd[r][i] \notin Paths
            /\ kind[r] = "info" =>
                   /\ pc[r] \in {"extracting", "done"}
                   /\ DOMAIN ydl_opts[r] = {"quiet", "no_warnings"}
                   /\ pc[r] = "done" =>
                          /\ extracted[r] # NotExtracted
                          /\ response[r].status \in {200, 400}
            /\ (kind[r] = "download" /\ how[r] # "spawn_failed") =>
                   /\ child[r] # "none"
                   /\ Len(cmd[r]) = 6
                   /\ response[r].status = 200

\* An /info request whose cookie file could not be written was answered
\* from the extractor's result.
C13_Witness ==
    \E r \in Reqs :
        /\ MaterializationFailed(r)
        /\ kind[r] = "info"
        /\ pc[r] = "done"
        /\ extracted[r].ok
        /\ response[r].status = 200

\* C14: the deletion step is idempotent: run on the path of a request, and
\* run again on what it left, it raises neither time, the file is absent
\* after the first run and the second run changes nothing.
C14_CleanupIdempotent ==
    \A r \in Reqs :
        Truthy(cookie_file[r]) =>
            LET once == DeletionStep(fs, cookie_file[r])
                twice == DeletionStep(once.fs, cookie_file[r])
            IN  /\ ~once.raised
                /\ once.fs[cookie_file[r]] = NoFile
                /\ ~twice.raised
                /\ twice.fs = once.fs

\* A request has run its deletion step and its file is gone.
C14_Witness ==
    \E r \in Reqs :
        /\ Truthy(cookie_file[r])
        /\ pc[r] = "done"
        /\ InLog(r, "unlink")
        /\ fs[cookie_file[r]] = NoFile

\* Request r is being served.
InFlight(r) == pc[r] \in {"extracting", "streaming"}

\* The cookie file named in the extractor options or the command line of
\* request r, None when there is none.
PassedPath(r) ==
    IF "cookiefile" \in DOMAIN ydl_opts[r] THEN ydl_opts[r]["cookiefile"]
    ELSE IF Len(cmd[r]) > 6 THEN cmd[r][Len(cmd[r])]
    ELSE None

\* C15: among concurrent requests with cookies, a request in flight has an
\* artifact path no other request in flight has; the path it passes to its
\* extractor or child is that of the file it created itself; and no other
\* request has deleted or replaced that file.
C15_ArtifactsNotShared ==
    \A r \in Reqs :
        (InFlight(r) /\ Truthy(cookie_file[r])) =>
            /\ created[r] = {cookie_file[r]}
            /\ PassedPath(r) = cookie_file[r]
            /\ fs[cookie_file[r]] = r
            /\ \A q \in Reqs \ {r} :
                   InFlight(q) => cookie_file[q] # cookie_file[r]

\* An /info and a /download, each with its cookie file, are in flight
\* together.
C15_Witness ==
    \E r, q \in Reqs :
        /\ r # q
        /\ pc[r] = "extracting" /\ Truthy(cookie_file[r])
        /\ pc[q] = "streaming" /\ Truthy(cookie_file[q])
        /\ gen[q] = "suspended"

\* C16: a successful /info response carries title, thumbnail, duration and
\* formats, the first three as the extractor gave them.
C16_MetadataRecordComplete ==
    \A r \in Reqs :
        (kind[r] = "info" /\ pc[r] = "done" /\ response[r].status = 200) =>
            /\ {"title", "thumbnail", "duration", "formats"}
                   \subseteq DOMAIN response[r]
            /\ \A k \in {"title", "thumbnail", "duration"} :
                   response[r][k] = Get(extracted[r].info, k, None)

\* The relay of request r has deleted the file it created.
ArtifactDeleted(r) ==
    Truthy(cookie_file[r]) /\ InLog(r, "unlink") /\ ~ArtifactExists(r)

\* C17: in /download the credential artifact is never deleted while the
\* child is running: a child never restarts, so whenever the artifact has
\* been deleted the child has ended.
C17_ArtifactOutlivesChild ==
    \A r \in Reqs :
        (kind[r] = "download" /\ ArtifactDeleted(r)) => ~Alive(child[r])

\* C18: the read loop is driven by demand: the relay is in a read only when
\* no chunk is waiting to be sent; the one chunk it can hold is not empty
\* and no longer than one read, as is every chunk sent; the bytes taken
\* from the child are those sent, that chunk and nothing else; and after a
\* zero-length read the generator has ended.
C18_DemandDriven ==
    \A r \in Reqs :
        /\ Len(data[r]) <= ChunkSize
        /\ gen[r] = "suspended" => data[r] # <<>>
        /\ gen[r] \in {"unstarted", "reading", "finished"} => data[r] = <<>>
        /\ \A i \in DOMAIN sent[r] :
               Len(sent[r][i]) \in 1..ChunkSize
        /\ Flatten(sent[r]) \o data[r] \o pipe[r] = childOut[r]
        /\ InLog(r, "eof") => gen[r] = "finished" /\ pc[r] = "done"

\* The relay holds one full chunk it has not sent, while the child has
\* written ahead into the pipe.
C18_Witness ==
    \E r \in Reqs :
        /\ gen[r] = "suspended"
        /\ Len(data[r]) = ChunkSize
        /\ pipe[r] # <<>>

\* The relay of request r is inside proc.stdout.read and the read cannot
\* return: fewer bytes than it asked for, and the write end still open.
RelayBlocked(r) == gen[r] = "reading" /\ ~ReadReady(r, ChunkSize)

\* C19: no state is reachable in which the relay is blocked reading the
\* child's output while the child is blocked writing to its error channel.
C19_NoMutualBlock ==
    \A r \in Reqs :
        ~(RelayBlocked(r) /\ child[r] = "stderr_blocked")

\* C20: every artifact file that exists is one whose path was returned to
\* the request that created it: a create_cookie_file that returns no path
\* leaves no file behind.
C20_FailedMaterializationLeavesNothing ==
    \A p \in Paths :
        fs[p] # NoFile => cookie_file[fs[p]] = p

====
